---------------------------- MODULE Spec2Model ----------------------------
(***************************************************************************)
(* TDS report engine of src/app.py: update_report_table and its two row    *)
(* functions calc_tds and calc_interest.                                   *)
(*                                                                         *)
(* Text (the date cells, the section code) is a sequence of one-character  *)
(* strings, so that slicing, trimming and parsing are computed.            *)
(*                                                                         *)
(* Money is exact: principal in rupees, a rate in percent, TDS in paise    *)
(* (principal * percent), interest in paise.  The code computes in         *)
(* binary floating point; round(x, 2) is modelled on the exact value,      *)
(* half to even.                                                           *)
(***************************************************************************)
EXTENDS Integers, Sequences, FiniteSets, TLC

VARIABLES SECTION_MAP, row, pc, report,
          clients_file, form, n_clicks, clients_table, client_add_status

\* the report engine's state
reportVars == <<SECTION_MAP, row, pc, report>>

\* the Clients tab: data/clients.csv, the three inputs of the form, the
\* clicks of the Add Client button, and the two outputs of manage_clients
clientVars == <<clients_file, form, n_clicks, clients_table, client_add_status>>

vars == <<SECTION_MAP, row, pc, report,
          clients_file, form, n_clicks, clients_table, client_add_status>>

\* the absent date: to_date's None (year 0 is no datetime)
None == [year |-> 0, month |-> 0, day |-> 0]

(***************************************************************************)
(* Characters                                                              *)
(***************************************************************************)
DigitChars == <<"0", "1", "2", "3", "4", "5", "6", "7", "8", "9">>

IsDigit(c) == \E i \in 1..10 : DigitChars[i] = c

DigitVal(c) == (CHOOSE i \in 1..10 : DigitChars[i] = c) - 1

IsSpace(c) == c \in {" ", "\t", "\n", "\r"}

(***************************************************************************)
(* datetime: the calendar and the constructor's range check                *)
(***************************************************************************)
MINYEAR == 1

MAXYEAR == 9999

IsLeap(y) == (y % 4 = 0) /\ ((y % 100 # 0) \/ (y % 400 = 0))

DaysInMonth(y, m) ==
    IF m = 2 THEN (IF IsLeap(y) THEN 29 ELSE 28)
    ELSE IF m \in {4, 6, 9, 11} THEN 30 ELSE 31

\* datetime(y, m, d) raises ValueError outside the calendar's range
DatetimeOk(y, m, d) ==
    /\ y >= MINYEAR /\ y <= MAXYEAR
    /\ m >= 1 /\ m <= 12
    /\ d >= 1 /\ d <= DaysInMonth(y, m)

datetime(y, m, d) == [year |-> y, month |-> m, day |-> d]

\* a <= b on datetimes (midnight on both sides)
DateLeq(a, b) ==
    \/ a.year < b.year
    \/ a.year = b.year /\ a.month < b.month
    \/ a.year = b.year /\ a.month = b.month /\ a.day <= b.day

(***************************************************************************)
(* str(s)[:10] and datetime.strptime(.., '%Y-%m-%d')                       *)
(***************************************************************************)
Slice10(s) == SubSeq(s, 1, IF Len(s) < 10 THEN Len(s) ELSE 10)

\* %Y: exactly four digits
YearField(t) ==
    IF Len(t) >= 4 /\ \A i \in 1..4 : IsDigit(t[i])
    THEN 1000 * DigitVal(t[1]) + 100 * DigitVal(t[2])
         + 10 * DigitVal(t[3]) + DigitVal(t[4])
    ELSE -1

\* %m: 1[0-2] | 0[1-9] | [1-9]
MonthField(f) ==
    IF Len(f) = 2 /\ IsDigit(f[1]) /\ IsDigit(f[2])
       /\ 10 * DigitVal(f[1]) + DigitVal(f[2]) \in 1..12
    THEN 10 * DigitVal(f[1]) + DigitVal(f[2])
    ELSE IF Len(f) = 1 /\ IsDigit(f[1]) /\ DigitVal(f[1]) >= 1
    THEN DigitVal(f[1])
    ELSE -1

\* %d: 3[01] | [12]\d | 0[1-9] | [1-9] | " "[1-9]
DayField(f) ==
    IF Len(f) = 2 /\ IsDigit(f[1]) /\ IsDigit(f[2])
       /\ 10 * DigitVal(f[1]) + DigitVal(f[2]) \in 1..31
    THEN 10 * DigitVal(f[1]) + DigitVal(f[2])
    ELSE IF Len(f) = 2 /\ f[1] = " " /\ IsDigit(f[2]) /\ DigitVal(f[2]) >= 1
    THEN DigitVal(f[2])
    ELSE IF Len(f) = 1 /\ IsDigit(f[1]) /\ DigitVal(f[1]) >= 1
    THEN DigitVal(f[1])
    ELSE -1

\* the whole of t must match <year>-<month>-<day>; otherwise ValueError
strptime(t) ==
    LET y == YearField(t)
        rest == IF Len(t) >= 6 THEN SubSeq(t, 6, Len(t)) ELSE << >>
        cuts == {k \in 2..3 : k < Len(rest) /\ rest[k] = "-"
                              /\ MonthField(SubSeq(rest, 1, k - 1)) # -1
                              /\ DayField(SubSeq(rest, k + 1, Len(rest))) # -1}
    IN  IF y = -1 \/ Len(t) < 8 \/ t[5] # "-" \/ cuts = {}
        THEN None
        ELSE LET k == CHOOSE c \in cuts : TRUE
                 m == MonthField(SubSeq(rest, 1, k - 1))
                 d == DayField(SubSeq(rest, k + 1, Len(rest)))
             IN  IF DatetimeOk(y, m, d) THEN datetime(y, m, d) ELSE None

\* try: strptime(str(s)[:10]) except: None
to_date(s) == strptime(Slice10(s))

(***************************************************************************)
(* str(section).strip() and SECTION_MAP.get(section, 0)                    *)
(***************************************************************************)
strip(s) ==
    LET keep == {i \in 1..Len(s) : ~IsSpace(s[i])}
    IN  IF keep = {} THEN << >>
        ELSE SubSeq(s, CHOOSE i \in keep : \A j \in keep : i <= j,
                       CHOOSE i \in keep : \A j \in keep : i >= j)

\* dict.get(key, 0): the key as stored, compared exactly
SectionRate(section) ==
    IF section \in DOMAIN SECTION_MAP THEN SECTION_MAP[section] ELSE 0

(***************************************************************************)
(* calc_tds                                                                *)
(***************************************************************************)
\* mutant: a TDS that is dropped when a date of the row is missing
calc_tds_dropped_without_dates(r) ==
    IF to_date(r.date_of_transaction) = None
       \/ to_date(r.date_of_tax_deduction) = None
       \/ to_date(r.date_of_tax_payment) = None
    THEN 0
    ELSE r.principal_amount * SectionRate(strip(r.tax_code_section))

calc_tds(r) == r.principal_amount * SectionRate(strip(r.tax_code_section))

(***************************************************************************)
(* calc_interest                                                           *)
(***************************************************************************)
\* round(x, 2) of an amount given in thousandths of a paisa
Round2(x) ==
    LET q == x \div 1000
        f == x % 1000
    IN  IF f < 500 THEN q
        ELSE IF f > 500 THEN q + 1
        ELSE IF q % 2 = 0 THEN q ELSE q + 1

deadline_day == 7

deadline_month(dt_trans) == IF dt_trans.month < 12 THEN dt_trans.month + 1 ELSE 1

deadline_year(dt_trans) == IF dt_trans.month < 12 THEN dt_trans.year ELSE dt_trans.year + 1

is_year_end(dt_deduct) == dt_deduct.month = 3 /\ dt_deduct.day = 31

\* year-end, paid after Apr 30: months at 1.5% counted from April
year_end_months_15(dt_pay, dt_deduct) ==
    (dt_pay.year - dt_deduct.year) * 12 + (dt_pay.month - 4) + 1

\* mutant: the months at 1% without the floor at 0
months_1_unfloored(dt_trans, dt_deduct) ==
    (dt_deduct.year - dt_trans.year) * 12 + (dt_deduct.month - dt_trans.month)

\* general case: months at 1%
months_1(dt_trans, dt_deduct) ==
    LET m == (dt_deduct.year - dt_trans.year) * 12 + (dt_deduct.month - dt_trans.month)
    IN  IF m < 0 THEN 0 ELSE m

\* mutant: the months at 1.5% without the payment month
months_15_exclusive(dt_deduct, dt_pay) ==
    LET m == (dt_pay.year - dt_deduct.year) * 12 + (dt_pay.month - dt_deduct.month)
    IN  IF m < 0 THEN 0 ELSE m

\* general case: months at 1.5%
months_15(dt_deduct, dt_pay) ==
    LET m == (dt_pay.year - dt_deduct.year) * 12 + (dt_pay.month - dt_deduct.month) + 1
    IN  IF m < 0 THEN 0 ELSE m

\* tds * 0.01 * m1 + tds * 0.015 * m15, rounded to 2 places
interest_of(tds, m1, m15) == Round2(tds * 10 * m1 + tds * 15 * m15)

Return(v, b) == [kind |-> "return", value |-> v, branch |-> b]

Raise == [kind |-> "raise", value |-> 0, branch |-> "ValueError"]

\* not (dt_trans and dt_deduct and dt_pay)
any_date_missing(dt_trans, dt_deduct, dt_pay) ==
    dt_trans = None \/ dt_deduct = None \/ dt_pay = None

year_end_case(tds, dt_deduct0, dt_pay) ==
    IF ~DatetimeOk(dt_deduct0.year + 1, 4, 1) THEN Raise
    ELSE LET dt_deduct == datetime(dt_deduct0.year + 1, 4, 1)
         IN  IF DateLeq(dt_pay, datetime(dt_deduct.year, 4, 30))
             THEN Return(interest_of(tds, 2, 0), "year-end-early")
             ELSE Return(interest_of(tds, 2, year_end_months_15(dt_pay, dt_deduct)),
                         "year-end-late")

general_case(tds, dt_trans, dt_deduct, dt_pay) ==
    Return(interest_of(tds, months_1(dt_trans, dt_deduct), months_15(dt_deduct, dt_pay)),
           "general")

calc_interest(r) ==
    LET dt_trans == to_date(r.date_of_transaction)
        dt_deduct == to_date(r.date_of_tax_deduction)
        dt_pay == to_date(r.date_of_tax_payment)
    IN  IF any_date_missing(dt_trans, dt_deduct, dt_pay)
        THEN Return(0, "missing-date")
        ELSE LET tds == r.principal_amount * SectionRate(strip(r.tax_code_section))
             IN  IF ~DatetimeOk(deadline_year(dt_trans), deadline_month(dt_trans), deadline_day)
                 THEN Raise
                 ELSE IF DateLeq(dt_pay, datetime(deadline_year(dt_trans),
                                                  deadline_month(dt_trans), deadline_day))
                 THEN Return(0, "on-time")
                 ELSE IF is_year_end(dt_deduct)
                 THEN year_end_case(tds, dt_deduct, dt_pay)
                 ELSE general_case(tds, dt_trans, dt_deduct, dt_pay)

(***************************************************************************)
(* Input domain: the cells of one transaction row and the rate table       *)
(***************************************************************************)
\* a row's transaction and deduction fall in its base year or the next,
\* its payment in the base year or one of the MaxPayYears years after it
MaxPayYears == 2

BaseYears == {2025, 9998}

Pad2(n) == <<DigitChars[((n \div 10) % 10) + 1], DigitChars[(n % 10) + 1]>>

YearText(y) ==
    (IF y >= 10000 THEN <<DigitChars[((y \div 10000) % 10) + 1]>> ELSE << >>)
    \o Pad2((y \div 100) % 100) \o Pad2(y % 100)

\* YYYY-MM-DD
DateText(y, m, d) == YearText(y) \o <<"-">> \o Pad2(m) \o <<"-">> \o Pad2(d)

\* Y-M-D without zero padding of month and day
DateTextShort(y, m, d) ==
    YearText(y) \o <<"-">> \o <<DigitChars[m + 1]>> \o <<"-">> \o <<DigitChars[d + 1]>>

TimeSuffix == <<" ", "0", "0", ":", "0", "0", ":", "0", "0">>

TransactionCells(b) ==
    {DateText(b + dy, md[1], md[2]) : dy \in 0..1, md \in {<<2, 10>>, <<12, 15>>}}
    \cup {<< >>, <<"n", "a", "n">>, DateText(b, 1, 10) \o TimeSuffix}

DeductionCells(b) ==
    {DateText(b + dy, md[1], md[2]) :
        dy \in 0..1, md \in {<<2, 25>>, <<3, 30>>, <<3, 31>>, <<4, 1>>}}
    \cup {<< >>, DateText(b, 2, 30), DateTextShort(b, 3, 1)}

PaymentCells(b) ==
    {DateText(b + dy, md[1], md[2]) :
        dy \in 0..MaxPayYears,
        md \in {<<1, 7>>, <<1, 8>>, <<3, 7>>, <<3, 8>>, <<4, 30>>, <<5, 1>>, <<6, 1>>}}
    \cup {<< >>, DateText(b, 13, 1), DateTextShort(b, 3, 8)}

\* multiples of 8: with whole-percent rates no interest falls exactly on
\* half a paisa, where the float result depends on the binary representation
Principals == {0, 1016, 150000}

Sections ==
    {<<"9", "4", "A">>, <<" ", "9", "4", "A", " ">>, <<"9", "4", "a">>,
     <<"9", "4", "C">>}

\* sections.json: "94A" is 10 percent; the rate of "94C" is one of these
Rates94C == {1, 2}

Tables == {(<<"9", "4", "A">> :> 10) @@ (<<"9", "4", "C">> :> r) : r \in Rates94C}

(***************************************************************************)
(* Clients tab: text operations                                            *)
(***************************************************************************)
UpperChars == <<"A", "B", "C", "D", "E", "F", "G", "H", "I", "J", "K", "L", "M",
                "N", "O", "P", "Q", "R", "S", "T", "U", "V", "W", "X", "Y", "Z">>

LowerChars == <<"a", "b", "c", "d", "e", "f", "g", "h", "i", "j", "k", "l", "m",
                "n", "o", "p", "q", "r", "s", "t", "u", "v", "w", "x", "y", "z">>

\* U+212A KELVIN SIGN: an upper-case letter other than "K" whose lower case
\* is "k"; str.upper leaves it as it is
KelvinSign == "U+212A"

IsUpperAscii(c) == \E i \in 1..26 : UpperChars[i] = c

IsLowerAscii(c) == \E i \in 1..26 : LowerChars[i] = c

\* str.upper, character by character
UpperChar(c) ==
    IF IsLowerAscii(c) THEN UpperChars[CHOOSE i \in 1..26 : LowerChars[i] = c] ELSE c

upper(s) == [i \in 1..Len(s) |-> UpperChar(s[i])]

\* a value of a dcc.Input that was never typed into
PyNone == <<"<None>">>

\* str(v or '')
str_or_empty(v) == IF v = PyNone \/ v = << >> THEN << >> ELSE v

(***************************************************************************)
(* PAN_REGEX = re.compile(r'^[A-Z]{5}[0-9]{4}[A-Z]$', re.IGNORECASE)       *)
(***************************************************************************)
\* [A-Z] under re.IGNORECASE on str: the 52 ASCII letters and the letters
\* that case-fold onto them, of which the Kelvin sign stays after upper()
RegexLetter(c) == IsUpperAscii(c) \/ IsLowerAscii(c) \/ c = KelvinSign

RegexDigit(c) == IsDigit(c)

\* PAN_REGEX.match(s); $ also matches before a final newline
PAN_REGEX_match(s) ==
    /\ Len(s) = 10 \/ (Len(s) = 11 /\ s[11] = "\n")
    /\ \A i \in 1..5 : RegexLetter(s[i])
    /\ \A i \in 6..9 : RegexDigit(s[i])
    /\ RegexLetter(s[10])

\* existing_pans is a sequence of texts
validate_pan(pan, existing_pans) ==
    IF ~PAN_REGEX_match(upper(pan))
    THEN [valid |-> FALSE, msg |-> "Invalid PAN format."]
    ELSE IF \E i \in 1..Len(existing_pans) : upper(existing_pans[i]) = upper(pan)
    THEN [valid |-> FALSE, msg |-> "Duplicate PAN."]
    ELSE [valid |-> TRUE, msg |-> ""]

(***************************************************************************)
(* data/clients.csv: load_clients and save_clients                         *)
(***************************************************************************)
\* a cell pandas holds as NaN
NaN == <<"<NaN>">>

\* cells pd.read_csv reads as NaN (of its default na_values)
NaValues ==
    {<< >>, <<"N", "A">>, <<"N", "a", "N">>, <<"n", "a", "n">>,
     <<"N", "U", "L", "L">>, <<"n", "u", "l", "l">>, <<"N", "/", "A">>}

read_csv_cell(c) == IF c \in NaValues THEN NaN ELSE c

to_csv_cell(v) == IF v = NaN THEN << >> ELSE v

\* pd.read_csv(clients_file), or the empty frame when there is no file
load_clients ==
    [i \in 1..Len(clients_file) |->
        [client_name |-> read_csv_cell(clients_file[i].client_name),
         PAN |-> read_csv_cell(clients_file[i].PAN),
         address |-> read_csv_cell(clients_file[i].address)]]

\* df.to_csv(clients_file, index=False)
save_clients(df) ==
    [i \in 1..Len(df) |->
        [client_name |-> to_csv_cell(df[i].client_name),
         PAN |-> to_csv_cell(df[i].PAN),
         address |-> to_csv_cell(df[i].address)]]

(***************************************************************************)
(* Clients tab: what is typed into the form, and the stores to start from  *)
(***************************************************************************)
\* clicks of Add Client in one run
MaxClicks == 3

PanF == <<"A", "B", "C", "D", "E", "1", "2", "3", "4", "F">>

PanK == <<"A", "B", "C", "D", "E", "1", "2", "3", "4", "K">>

PanKelvin == <<"A", "B", "C", "D", "E", "1", "2", "3", "4", KelvinSign>>

NameInputs == {<<" ", " ">>, <<"N", "A">>, <<"A", "s", "h", "a">>}

PanInputs ==
    {PyNone, PanF, PanK, PanKelvin,
     <<" ", "a", "b", "c", "d", "e", "1", "2", "3", "4", "f", "\n">>,
     <<"A", "B", "C", "D", "1", "2", "3", "4", "F">>,
     <<"A", "B", "C", "D", "E", " ", "2", "3", "4", "F">>}

AddressInputs == {PyNone, <<"P", "u", "n", "e">>}

Forms == [name : NameInputs, pan : PanInputs, address : AddressInputs]

NoForm == [name |-> PyNone, pan |-> PyNone, address |-> PyNone]

\* no file, or a file written by hand with a lower-case PAN
InitialStores ==
    {<< >>,
     <<[client_name |-> <<"R", "a", "v", "i">>,
        PAN |-> <<"a", "b", "c", "d", "e", "1", "2", "3", "4", "k">>,
        address |-> <<"G", "o", "a">>]>>}

\* the Clients tab before its first callback
ClientsAtRest(store) ==
    /\ clients_file = store
    /\ form = NoForm
    /\ n_clicks = 0
    /\ clients_table = << >>
    /\ client_add_status = << >>

NoReport == [TDS |-> 0, Interest |-> 0, Total |-> 0, branch |-> "none"]

Init ==
    /\ SECTION_MAP \in Tables
    /\ \E b \in BaseYears :
         row \in [principal_amount : Principals,
                  tax_code_section : Sections,
                  date_of_transaction : TransactionCells(b),
                  date_of_tax_deduction : DeductionCells(b),
                  date_of_tax_payment : PaymentCells(b)]
    /\ pc = "loaded"
    /\ report = NoReport
    /\ ClientsAtRest(<< >>)

(***************************************************************************)
(* update_report_table on the row: the TDS, Interest and Total Payment     *)
(* columns, or the exception calc_interest lets through                    *)
(***************************************************************************)
update_report_table ==
    /\ pc = "loaded"
    /\ LET tds == calc_tds(row)
           out == calc_interest(row)
       IN  /\ out.kind = "return"
           /\ report' = [TDS |-> tds,
                         Interest |-> out.value,
                         Total |-> tds + out.value,
                         branch |-> out.branch]
    /\ pc' = "done"
    /\ UNCHANGED <<SECTION_MAP, row>>
    /\ UNCHANGED clientVars

update_report_table_raises ==
    /\ pc = "loaded"
    /\ calc_interest(row).kind = "raise"
    /\ pc' = "raised"
    /\ UNCHANGED <<SECTION_MAP, row, report>>
    /\ UNCHANGED clientVars

Next == update_report_table \/ update_report_table_raises

Spec == Init /\ [][Next]_vars

(***************************************************************************)
(* manage_clients: the Clients tab callback                                *)
(***************************************************************************)
\* the user types into the three inputs (State, not Input: no callback)
type_form ==
    /\ form' \in Forms
    /\ UNCHANGED <<clients_file, n_clicks, clients_table, client_add_status>>
    /\ UNCHANGED reportVars

\* the errors list of the add-client-btn branch
add_client_errors(name, pan, address, df) ==
    (IF name = << >> \/ pan = << >> \/ address = << >>
     THEN <<"All fields are required.">> ELSE << >>)
    \o (LET v == validate_pan(pan, [i \in 1..Len(df) |-> upper(df[i].PAN)])
        IN  IF ~v.valid THEN <<v.msg>> ELSE << >>)

\* triggered by add-client-btn: validate, append and save, or report errors
manage_clients_add ==
    /\ n_clicks < MaxClicks
    /\ n_clicks' = n_clicks + 1
    /\ LET df == load_clients
           name == strip(str_or_empty(form.name))
           pan == strip(upper(str_or_empty(form.pan)))
           address == strip(str_or_empty(form.address))
           errors == add_client_errors(name, pan, address, df)
       IN  IF errors = << >>
           THEN LET df2 == Append(df, [client_name |-> name, PAN |-> pan,
                                       address |-> address])
                IN  /\ clients_file' = save_clients(df2)
                    /\ clients_table' = df2
                    /\ client_add_status' = <<"Client added successfully.">>
           ELSE /\ clients_file' = clients_file
                /\ clients_table' = df
                /\ client_add_status' = errors
    /\ UNCHANGED form
    /\ UNCHANGED reportVars

\* the initial call, or triggered by clients-table.data_timestamp
manage_clients_refresh ==
    /\ clients_table' = load_clients
    /\ client_add_status' = << >>
    /\ UNCHANGED <<clients_file, form, n_clicks>>
    /\ UNCHANGED reportVars

InitClients ==
    /\ SECTION_MAP \in {(<<"9", "4", "A">> :> 10) @@ (<<"9", "4", "C">> :> 2)}
    /\ row = [principal_amount |-> 0, tax_code_section |-> << >>,
              date_of_transaction |-> << >>, date_of_tax_deduction |-> << >>,
              date_of_tax_payment |-> << >>]
    /\ pc = "loaded"
    /\ report = NoReport
    /\ \E store \in InitialStores : ClientsAtRest(store)

NextClients == type_form \/ manage_clients_add \/ manage_clients_refresh

SpecClients == InitClients /\ [][NextClients]_vars

(***************************************************************************)
(* Vocabulary of the properties: the row as parsed, and what the           *)
(* specification says of it                                                *)
(***************************************************************************)
Acted == pc # "loaded"

dtT == to_date(row.date_of_transaction)

dtD == to_date(row.date_of_tax_deduction)

dtP == to_date(row.date_of_tax_payment)

AllDatesPresent == dtT # None /\ dtD # None /\ dtP # None

\* principal times the rate of the trimmed section code, 0 for no key
ExpectedTds ==
    LET code == strip(row.tax_code_section)
    IN  IF code \in DOMAIN SECTION_MAP
        THEN row.principal_amount * SECTION_MAP[code] ELSE 0

\* the 7th of the month after the transaction month, as a calendar date
\* of any year
StatutoryDeadline ==
    IF dtT.month = 12 THEN [year |-> dtT.year + 1, month |-> 1, day |-> 7]
    ELSE [year |-> dtT.year, month |-> dtT.month + 1, day |-> 7]

Before(a, b) == ~DateLeq(b, a)

PaidLate == Before(StatutoryDeadline, dtP)

DeductedAtYearEnd == dtD.month = 3 /\ dtD.day = 31

MonthsBetween(a, b) == (b.year - a.year) * 12 + (b.month - a.month)

Max0(n) == IF n < 0 THEN 0 ELSE n

TheRow(p, s, t, d, y) ==
    row = [principal_amount |-> p, tax_code_section |-> s,
           date_of_transaction |-> t, date_of_tax_deduction |-> d,
           date_of_tax_payment |-> y]

C2_LateYearEndInterest ==
    /\ (pc = "done" /\ AllDatesPresent /\ PaidLate /\ DeductedAtYearEnd
        /\ Before([year |-> dtD.year, month |-> 4, day |-> 30], dtP)) =>
           report.Interest =
               Round2(ExpectedTds * 10 * 2
                      + ExpectedTds * 15
                        * ((dtP.year - dtD.year) * 12 + (dtP.month - 4) + 1))
    /\ (pc = "done"
        /\ TheRow(150000, <<"9", "4", "A">>, DateText(2025, 2, 10),
                  DateText(2025, 3, 31), DateText(2025, 6, 1))) =>
           report.Interest = 97500

(***************************************************************************)
(* C3.  A row with all dates present, paid after the deadline and deducted *)
(* on March 31 of year Y: the effective deduction date is April 1 of Y+1;  *)
(* paid by April 30 of Y+1 the interest is round(tds*0.01*2, 2), otherwise *)
(* round(tds*0.01*2 + tds*0.015*m, 2) with                                 *)
(* m = (payment.year - (Y+1))*12 + (payment.month - 4) + 1; the            *)
(* transaction month plays no part.                                        *)
(***************************************************************************)
C3_YearEndInterest ==
    (Acted /\ AllDatesPresent /\ PaidLate /\ DeductedAtYearEnd) =>
        /\ pc = "done"
        /\ report.Interest =
             IF DateLeq(dtP, [year |-> dtD.year + 1, month |-> 4, day |-> 30])
             THEN Round2(ExpectedTds * 10 * 2)
             ELSE Round2(ExpectedTds * 10 * 2
                         + ExpectedTds * 15
                           * ((dtP.year - (dtD.year + 1)) * 12 + (dtP.month - 4) + 1))

(***************************************************************************)
(* C4.  A row with all dates present and paid on or before the deadline    *)
(* (the 7th of the month after the transaction month, January 7 of the     *)
(* next year for a December transaction) gets interest 0 and total = tds,  *)
(* whatever its deduction date.                                            *)
(***************************************************************************)
C4_OnTimeNoInterest ==
    (Acted /\ AllDatesPresent /\ ~PaidLate) =>
        (pc = "done" /\ report.Interest = 0 /\ report.TDS = ExpectedTds
         /\ report.Total = report.TDS)

(***************************************************************************)
(* C5.  A row with all dates present, paid after the deadline and not      *)
(* deducted on March 31 gets interest = round(tds*0.01*L + tds*0.015*H, 2) *)
(* with L = max(0, months from transaction to deduction) and               *)
(* H = max(0, months from deduction to payment + 1), in any order of the   *)
(* three dates, and total = tds + interest.                                *)
(***************************************************************************)
C5_GeneralInterest ==
    (Acted /\ AllDatesPresent /\ PaidLate /\ ~DeductedAtYearEnd) =>
        /\ pc = "done"
        /\ report.TDS = ExpectedTds
        /\ report.Interest =
             Round2(ExpectedTds * 10 * Max0(MonthsBetween(dtT, dtD))
                    + ExpectedTds * 15 * Max0(MonthsBetween(dtD, dtP) + 1))
        /\ report.Total = report.TDS + report.Interest

\* C5 witness: a late row paid two or more months before its deduction
\* (H floored at 0) that is charged interest for its months at 1%
C5_Witness ==
    /\ pc = "done" /\ AllDatesPresent /\ PaidLate /\ ~DeductedAtYearEnd
    /\ MonthsBetween(dtD, dtP) + 1 < 0
    /\ report.Interest > 0

(***************************************************************************)
(* C6.  A row whose trimmed section code is not exactly a key of the rate  *)
(* table (case matters) has rate 0: tds = 0, interest = 0 and total = 0    *)
(* for any principal and any dates, and no error is raised.                *)
(***************************************************************************)
C6_UnknownSectionAllZero ==
    (Acted /\ strip(row.tax_code_section) \notin DOMAIN SECTION_MAP) =>
        (pc = "done" /\ report.TDS = 0 /\ report.Interest = 0 /\ report.Total = 0)

(***************************************************************************)
(* C7.  Whatever the three date cells hold (a valid date of any year       *)
(* 1..9999, December and March 31 of year 9999 included, nothing, or       *)
(* malformed text), the interest computation completes with a number and   *)
(* never raises; a date that fails to parse gives interest 0.              *)
(***************************************************************************)
C7_NeverRaises ==
    Acted => (pc = "done" /\ (~AllDatesPresent => report.Interest = 0))

\* the row of the one-day-late scenario
OneDayLateRow ==
    TheRow(150000, <<"9", "4", "A">>, DateText(2025, 2, 10),
           DateText(2025, 2, 25), DateText(2025, 3, 8))

(***************************************************************************)
(* C8.  As claimed: 2025-02-10 / 2025-02-25 / 2025-03-08 on a TDS of       *)
(* 15000 is the general case with months_lower = 0 and months_higher = 1,  *)
(* one month at 1.5%, and interest 450.00.                                 *)
(***************************************************************************)
C8_OneDayLateOneMonth ==
    (Acted /\ OneDayLateRow) =>
        /\ pc = "done" /\ report.branch = "general"
        /\ months_1(dtT, dtD) = 0 /\ months_15(dtD, dtP) = 1
        /\ report.Interest = 45000

\* C8, amended: that row is the general case with months_lower = 0 and
\* months_higher = 2 (February and March at 1.5%), and interest 450.00.
C8_OneDayLateTwoMonths ==
    (Acted /\ OneDayLateRow) =>
        /\ pc = "done" /\ report.branch = "general"
        /\ months_1(dtT, dtD) = 0 /\ months_15(dtD, dtP) = 2
        /\ report.Interest = 45000
        /\ report.Interest = Round2(report.TDS * 15 * 2)

\* C8 witness: the report of that row
C8_Witness == pc = "done" /\ OneDayLateRow /\ report.TDS = 1500000

\* the branch the priority order of the specification selects
C9_ExpectedBranch ==
    IF ~AllDatesPresent THEN {"missing-date"}
    ELSE IF ~PaidLate THEN {"on-time"}
    ELSE IF DeductedAtYearEnd THEN {"year-end-early", "year-end-late"}
    ELSE {"general"}

(***************************************************************************)
(* C9.  Every invocation ends in exactly one of five branches, chosen in   *)
(* this order: missing-date if a date is absent; else on-time if paid by   *)
(* the deadline; else year-end-early or year-end-late exactly when the     *)
(* deduction is on March 31; else general.                                 *)
(***************************************************************************)
C9_FiveBranches ==
    Acted => (pc = "done" /\ report.branch \in C9_ExpectedBranch)

\* the payment cells of the row's years that hold a date on or after its payment date
LaterPayments ==
    {c \in UNION {PaymentCells(b) : b \in {y \in BaseYears : y <= dtP.year
                                                            /\ dtP.year <= y + MaxPayYears}} :
        to_date(c) # None /\ DateLeq(dtP, to_date(c))}

(***************************************************************************)
(* C10.  With principal, section, transaction and deduction dates fixed,   *)
(* the interest does not decrease as the payment date moves later: for     *)
(* payment dates p1 <= p2, interest(p1) <= interest(p2).                   *)
(***************************************************************************)
C10_MonotoneInPayment ==
    (Acted /\ AllDatesPresent) =>
        /\ pc = "done"
        /\ \A c \in LaterPayments :
             LET later == calc_interest([row EXCEPT !.date_of_tax_payment = c])
             IN  later.kind = "return" /\ report.Interest <= later.value

(***************************************************************************)
(* Clients tab: vocabulary of the claims                                   *)
(***************************************************************************)
\* caseless form of a text (str.casefold): the Kelvin sign folds to "k"
CaseFoldChar(c) ==
    IF IsUpperAscii(c) THEN LowerChars[CHOOSE i \in 1..26 : UpperChars[i] = c]
    ELSE IF c = KelvinSign THEN "k" ELSE c

CaseFold(s) == [i \in 1..Len(s) |-> CaseFoldChar(s[i])]

StoredPans == [i \in 1..Len(clients_file) |-> clients_file[i].PAN]

\* five letters, four digits, one letter
IsLetter(c) == IsUpperAscii(c) \/ IsLowerAscii(c) \/ c = KelvinSign

MatchesPanFormat(p) ==
    /\ Len(p) = 10
    /\ \A i \in 1..5 : IsLetter(p[i])
    /\ \A i \in 6..9 : IsDigit(p[i])
    /\ IsLetter(p[10])

\* the request in the form, as manage_clients reads it
RequestName == strip(str_or_empty(form.name))

RequestPan == strip(upper(str_or_empty(form.pan)))

RequestAddress == strip(str_or_empty(form.address))

EmptyField == RequestName = << >> \/ RequestPan = << >> \/ RequestAddress = << >>

MalformedPan == ~MatchesPanFormat(RequestPan)

DuplicatePan == \E i \in 1..Len(StoredPans) : CaseFold(StoredPans[i]) = CaseFold(RequestPan)

AddClick == n_clicks' = n_clicks + 1

\* C11 (first half): in every state the stored PANs are pairwise distinct
\* ignoring case, and every stored PAN, the added ones among them, is five
\* letters, four digits and one letter.
C11_PansDistinctIgnoringCase ==
    /\ \A i, j \in 1..Len(StoredPans) :
         i # j => CaseFold(StoredPans[i]) # CaseFold(StoredPans[j])
    /\ \A i \in 1..Len(StoredPans) : MatchesPanFormat(StoredPans[i])

\* C11 (second half): an add-client request with an empty name, PAN or
\* address, a malformed PAN or a duplicate PAN (ignoring case) leaves the
\* client store unchanged and returns an error message.
C11_RejectedRequestLeavesStore ==
    [][(AddClick /\ (EmptyField \/ MalformedPan \/ DuplicatePan))
         => /\ clients_file' = clients_file
            /\ client_add_status' # << >>
            /\ client_add_status' # <<"Client added successfully.">>]_vars

\* C11 (second half, duplicates compared as validate_pan compares them,
\* upper-cased): the same with a duplicate PAN read as equal after str.upper.
C11_RejectedUpperDuplicateLeavesStore ==
    [][(AddClick /\ (EmptyField \/ MalformedPan
                       \/ \E i \in 1..Len(StoredPans) :
                            upper(StoredPans[i]) = upper(RequestPan)))
         => /\ clients_file' = clients_file
            /\ client_add_status' # << >>
            /\ client_add_status' # <<"Client added successfully.">>]_vars

\* C11 read with str.upper as the caseless form: what the code does keep
C11_PansDistinctUpper ==
    /\ \A i, j \in 1..Len(StoredPans) :
         i # j => upper(StoredPans[i]) # upper(StoredPans[j])
    /\ \A i \in 1..Len(StoredPans) : MatchesPanFormat(StoredPans[i])

=============================================================================
